---- MODULE Spec2Model ----
(***************************************************************************)
(* Access-scoping gateway of the Dokploy MCP server: the process-wide      *)
(* project lock (ProjectLockManager), the per-call gate                    *)
(* (enforceProjectLock) and the action routers of the consolidated tools   *)
(* dokploy_application, dokploy_mysql, dokploy_postgres, dokploy_project.  *)
(*                                                                         *)
(* Conventions.  An optional value (undefined / null in the source) is a   *)
(* sequence of length 0 or 1.  A parameter bag and an environment entry    *)
(* are functions whose DOMAIN is the set of keys that are present.  A      *)
(* text built by a template literal is the sequence of its parts.          *)
(***************************************************************************)
EXTENDS Naturals, Sequences, FiniteSets, TLC

VARIABLES env, config, directory, inv, startup, probe

vars == <<env, config, directory, inv, startup, probe>>

\* Number of consolidated-tool invocations that may be in flight together.
MaxConcurrent == 2

Invs == 1..MaxConcurrent

Null == <<>>

Some(v) == <<v>>

-----------------------------------------------------------------------------
(* ProjectLockManager: configuration *)

\* process.env.DOKPLOY_LOCKED_PROJECT_ID: unset, empty, or a project id.
EnvValues == {Null, Some(""), Some("p1"), Some("p2")}

\* a string is falsy exactly when it is undefined/null or empty
Falsy(opt) == opt = Null \/ opt[1] = ""

\* "??" written for "||": an empty value is kept as the locked id
loadConfigNullish(e) ==
    [lockedProjectId |-> e, isEnabled |-> ~Falsy(e)]

loadConfig(e) ==
    LET lockedProjectId == IF Falsy(e) THEN Null ELSE e
    IN  [lockedProjectId |-> lockedProjectId, isEnabled |-> ~Falsy(lockedProjectId)]

\* the configuration loaded afresh by every call
getConfigReread(memo, e) == Some(loadConfig(e))

\* the memo after a call of getConfig: loaded on first access only
getConfig(memo, e) == IF memo = Null THEN Some(loadConfig(e)) ELSE memo

\* negation of the guard  !config.isEnabled || !config.lockedProjectId
LockOn(c) == c.isEnabled /\ ~Falsy(c.lockedProjectId)

-----------------------------------------------------------------------------
(* ResponseFormatter (collaborator): the uniform envelope *)

ResponseFormatterError(title, detail) ==
    [isError |-> TRUE, title |-> title, detail |-> detail]

ResponseFormatterSuccess(message) ==
    [isError |-> FALSE, title |-> message, detail |-> <<>>]

-----------------------------------------------------------------------------
(* Parameter bags *)

Keys == {"projectId", "environmentId", "targetEnvironmentId", "applicationId"}

EmptyBag == [k \in {} |-> ""]

\* a test for the key's presence, whatever its value
TruthyPresent(b, k) == k \in DOMAIN b

\* if (params.k): the key is present and its value is not falsy
Truthy(b, k) == k \in DOMAIN b /\ b[k] # ""

\* params.projectId = value, on the bag object itself
AssignFresh(b, k, v) == b

\* a new bag holding the assigned key alone
AssignOnly(b, k, v) == [x \in {k} |-> v]

Assign(b, k, v) == [x \in DOMAIN b \cup {k} |-> IF x = k THEN v ELSE b[x]]

-----------------------------------------------------------------------------
(* ProjectLockManager: validators *)

validateProjectIdLax(c, projectId) == Null

\* every explicit projectId refused under the lock
validateProjectIdStrict(c, projectId) ==
    IF LockOn(c) /\ ~Falsy(projectId)
    THEN Some(<<"Access denied: This MCP instance is locked to project \"",
                c.lockedProjectId[1], "\"">>)
    ELSE Null

validateProjectId(c, projectId) ==
    IF ~LockOn(c) THEN Null
    ELSE IF ~Falsy(projectId) /\ projectId # c.lockedProjectId
         THEN Some(<<"Access denied: This MCP instance is locked to project \"",
                     c.lockedProjectId[1], "\"">>)
         ELSE Null

\* the caller's id preferred to the lock
getEffectiveProjectIdCallerFirst(c, projectId) ==
    IF ~Falsy(projectId) THEN projectId
    ELSE IF LockOn(c) THEN c.lockedProjectId ELSE projectId

getEffectiveProjectId(c, projectId) ==
    IF c.isEnabled /\ ~Falsy(c.lockedProjectId) THEN c.lockedProjectId
    ELSE projectId

\* Resource Directory Client: GET /project.one?projectId=<id>
apiClientGet(dir, projectId) == dir[projectId]

\* env.<f> of an entry of project.environments
Field(e, f) == IF f \in DOMAIN e THEN Some(e[f]) ELSE Null

\* an entry of project.environments that is null: reading env.id throws
NullEntry == [null |-> "null"]

\* some() calls its callback entry by entry and stops at the first match:
\* the callback throws a TypeError when it reaches a null entry first
someThrows(items, environmentId) ==
    \E k \in DOMAIN items :
        /\ items[k] = NullEntry
        /\ \A j \in 1..(k - 1) :
              /\ Field(items[j], "id") # Some(environmentId)
              /\ Field(items[j], "environmentId") # Some(environmentId)

environmentExistsIdOnly(items, environmentId) ==
    \E k \in DOMAIN items : Field(items[k], "id") = Some(environmentId)

environmentExists(items, environmentId) ==
    \E k \in DOMAIN items :
        \/ Field(items[k], "id") = Some(environmentId)
        \/ Field(items[k], "environmentId") = Some(environmentId)

\* validateEnvironmentBelongsToProject returns before any lookup when the
\* lock is off
envNeedsLookup(c) == LockOn(c)

envVerdictFailOpen(c, resp, environmentId) ==
    IF resp.kind = "data" /\ resp.environments.tag = "array"
       /\ ~environmentExists(resp.environments.items, environmentId)
    THEN Some(<<"Access denied: Environment \"", environmentId,
                "\" does not belong to locked project \"",
                c.lockedProjectId[1], "\"">>)
    ELSE Null

\* a project without an environments array refused instead of let through
envVerdictFailClosed(c, resp, environmentId) ==
    CASE resp.kind = "throw" ->
            Some(<<"Failed to validate environment: ", resp.message>>)
      [] resp.kind = "throwOther" ->
            Some(<<"Failed to validate environment: ", "Unknown error">>)
      [] resp.kind = "nodata" ->
            Some(<<"Locked project \"", c.lockedProjectId[1], "\" not found">>)
      [] OTHER ->
            IF resp.environments.tag = "array"
               /\ environmentExists(resp.environments.items, environmentId)
            THEN Null
            ELSE Some(<<"Access denied: Environment \"", environmentId,
                        "\" does not belong to locked project \"",
                        c.lockedProjectId[1], "\"">>)

\* the catch block left out: what was thrown comes back as it is
envVerdictUncaught(c, resp, environmentId) ==
    CASE resp.kind = "throw" -> Some(<<resp.message>>)
      [] resp.kind = "throwOther" -> Some(<<"Unknown error">>)
      [] resp.kind = "nodata" ->
            Some(<<"Locked project \"", c.lockedProjectId[1], "\" not found">>)
      [] OTHER ->
            IF resp.environments.tag = "array"
            THEN IF someThrows(resp.environments.items, environmentId)
                 THEN Some(<<"Cannot read properties of null (reading 'id')">>)
                 ELSE IF ~environmentExists(resp.environments.items, environmentId)
                 THEN Some(<<"Access denied: Environment \"", environmentId,
                             "\" does not belong to locked project \"",
                             c.lockedProjectId[1], "\"">>)
                 ELSE Null
            ELSE Null

\* validateEnvironmentBelongsToProject after the lookup has settled with resp
envVerdict(c, resp, environmentId) ==
    CASE resp.kind = "throw" ->
            Some(<<"Failed to validate environment: ", resp.message>>)
      [] resp.kind = "throwOther" ->
            Some(<<"Failed to validate environment: ", "Unknown error">>)
      [] resp.kind = "nodata" ->
            Some(<<"Locked project \"", c.lockedProjectId[1], "\" not found">>)
      [] OTHER ->
            IF resp.environments.tag = "array"
            THEN IF someThrows(resp.environments.items, environmentId)
                 THEN Some(<<"Failed to validate environment: ",
                             "Cannot read properties of null (reading 'id')">>)
                 ELSE IF ~environmentExists(resp.environments.items, environmentId)
                 THEN Some(<<"Access denied: Environment \"", environmentId,
                             "\" does not belong to locked project \"",
                             c.lockedProjectId[1], "\"">>)
                 ELSE Null
            ELSE Null

-----------------------------------------------------------------------------
(* ProjectLockManager.validateLockedProject, cut at its suspension point *)

\* startup validation not yet called
NotValidated == [pc |-> "notRun", lookups |-> <<>>, error |-> Null]

\* lines 98-110: from the call to the return of the lock-off case or to the
\* lookup
validateStart(c) ==
    IF ~LockOn(c)
    THEN [pc |-> "ok", lookups |-> <<>>, error |-> Null]
    ELSE [pc |-> "await_project", lookups |-> <<>>, error |-> Null]

\* the "if (!response?.data) throw" left out
validateFailureDataless(c, resp) ==
    CASE resp.kind = "throw" -> Some(<<resp.message>>)
      [] resp.kind = "throwOther" -> Some(<<"Unknown error">>)
      [] OTHER -> Null

\* lines 105-122: what the try block throws into the catch, if anything
validateFailure(c, resp) ==
    CASE resp.kind = "throw" -> Some(<<resp.message>>)
      [] resp.kind = "throwOther" -> Some(<<"Unknown error">>)
      [] resp.kind = "nodata" ->
            Some(<<"Project with ID \"", c.lockedProjectId[1], "\" not found">>)
      [] OTHER -> Null

\* lines 107-128: the lookup has settled with resp
validateAfterLookup(c, resp) ==
    IF validateFailure(c, resp) # Null
    THEN [pc |-> "failed", lookups |-> <<resp>>,
          error |-> Some(<<"Invalid DOKPLOY_LOCKED_PROJECT_ID: Project \"",
                           c.lockedProjectId[1],
                           "\" does not exist or is not accessible. ">>
                         \o validateFailure(c, resp)[1])]
    ELSE [pc |-> "ok", lookups |-> <<resp>>, error |-> Null]

-----------------------------------------------------------------------------
(* enforceProjectLock, cut at its suspension points *)

GateProceed(b) == [pc |-> "gated", params |-> b, lockError |-> Null, gate |-> "proceed"]

GateDenied(b, title, detail) ==
    [pc |-> "gated", params |-> b,
     lockError |-> Some(ResponseFormatterError(title, detail)), gate |-> "denied"]

GateAwait(b, at) == [pc |-> at, params |-> b, lockError |-> Null, gate |-> "pending"]

\* the targetEnvironmentId check left out
enforceTargetSkipped(c, b) == GateProceed(b)

\* lines 63-80: the targetEnvironmentId check, up to its lookup
enforceTarget(c, b) ==
    IF Truthy(b, "targetEnvironmentId") /\ envNeedsLookup(c)
    THEN GateAwait(b, "await_target")
    ELSE GateProceed(b)

\* the two child checks in the other order, the later one dropped
enforceEnvironmentTargetFirst(c, b) ==
    IF Truthy(b, "targetEnvironmentId") /\ envNeedsLookup(c)
    THEN GateAwait(b, "await_target")
    ELSE IF Truthy(b, "environmentId") /\ envNeedsLookup(c)
         THEN GateAwait(b, "await_env")
         ELSE GateProceed(b)

\* lines 49-61: the environmentId check, up to its lookup
enforceEnvironment(c, b) ==
    IF Truthy(b, "environmentId") /\ envNeedsLookup(c)
    THEN GateAwait(b, "await_env")
    ELSE enforceTarget(c, b)

\* lines 41-47: injection of the locked project id
injectProjectId(c, b) ==
    IF ~Truthy(b, "projectId") /\ ~Falsy(c.lockedProjectId)
    THEN Assign(b, "projectId", c.lockedProjectId[1])
    ELSE b

\* the early return dropped, and the injection written without its
\* "&& config.lockedProjectId"
enforceStartNoShortcut(c, b) ==
    IF Truthy(b, "projectId") /\ validateProjectId(c, Some(b["projectId"])) # Null
    THEN GateDenied(b, <<"Project lock violation">>,
                    validateProjectId(c, Some(b["projectId"]))[1])
    ELSE enforceEnvironment(c,
            IF Truthy(b, "projectId") THEN b
            ELSE Assign(b, "projectId",
                        IF Falsy(c.lockedProjectId) THEN ""
                        ELSE c.lockedProjectId[1]))

\* lines 22-47 and on to the first lookup: everything enforceProjectLock does
\* before it first suspends
enforceStart(c, b) ==
    IF ~LockOn(c) THEN GateProceed(b)
    ELSE IF Truthy(b, "projectId")
            /\ validateProjectId(c, Some(b["projectId"])) # Null
         THEN GateDenied(b, <<"Project lock violation">>,
                         validateProjectId(c, Some(b["projectId"]))[1])
         ELSE enforceEnvironment(c, injectProjectId(c, b))

\* the denial handed back with projectId taken out of the bag again
enforceAfterEnvRollback(c, b, resp) ==
    IF envVerdict(c, resp, b["environmentId"]) # Null
    THEN GateDenied([k \in DOMAIN b \ {"projectId"} |-> b[k]],
                    <<"Environment validation failed">>,
                    envVerdict(c, resp, b["environmentId"])[1])
    ELSE enforceTarget(c, b)

\* lines 54-61: the environmentId lookup has settled
enforceAfterEnv(c, b, resp) ==
    IF envVerdict(c, resp, b["environmentId"]) # Null
    THEN GateDenied(b, <<"Environment validation failed">>,
                    envVerdict(c, resp, b["environmentId"])[1])
    ELSE enforceTarget(c, b)

\* lines 68-80: the targetEnvironmentId lookup has settled
enforceAfterTarget(c, b, resp) ==
    IF envVerdict(c, resp, b["targetEnvironmentId"]) # Null
    THEN GateDenied(b, <<"Target environment validation failed">>,
                    envVerdict(c, resp, b["targetEnvironmentId"])[1])
    ELSE GateProceed(b)

-----------------------------------------------------------------------------
(* Action routers: one action map per consolidated tool *)

Families == {"application", "mysql", "postgres", "project"}

applicationActionMap ==
    [create |-> "applicationCreate", delete |-> "applicationDelete",
     deploy |-> "applicationDeploy", start |-> "applicationStart",
     stop |-> "applicationStop", update |-> "applicationUpdate",
     get |-> "applicationOne", redeploy |-> "applicationRedeploy",
     reload |-> "applicationReload", move |-> "applicationMove",
     cancelDeployment |-> "applicationCancelDeployment",
     cleanQueues |-> "applicationCleanQueues",
     disconnectGitProvider |-> "applicationDisconnectGitProvider",
     markRunning |-> "applicationMarkRunning",
     readAppMonitoring |-> "applicationReadAppMonitoring",
     readTraefikConfig |-> "applicationReadTraefikConfig",
     refreshToken |-> "applicationRefreshToken",
     saveBitbucketProvider |-> "applicationSaveBitbucketProvider",
     saveBuildType |-> "applicationSaveBuildType",
     saveDockerProvider |-> "applicationSaveDockerProvider",
     saveEnvironment |-> "applicationSaveEnvironment",
     saveGitProvider |-> "applicationSaveGitProvider",
     saveGiteaProvider |-> "applicationSaveGiteaProvider",
     saveGithubProvider |-> "applicationSaveGithubProvider",
     saveGitlabProvider |-> "applicationSaveGitlabProvider",
     updateTraefikConfig |-> "applicationUpdateTraefikConfig",
     domainCreate |-> "domainCreate", domainDelete |-> "domainDelete",
     domainUpdate |-> "domainUpdate", domainGet |-> "domainOne",
     domainByApplicationId |-> "domainByApplicationId",
     domainByComposeId |-> "domainByComposeId",
     domainGenerateDomain |-> "domainGenerateDomain",
     domainCanGenerateTraefikMeDomains |-> "domainCanGenerateTraefikMeDomains",
     domainValidate |-> "domainValidateDomain"]

mysqlActionMap ==
    [create |-> "mysqlCreate", remove |-> "mysqlRemove", deploy |-> "mysqlDeploy",
     start |-> "mysqlStart", stop |-> "mysqlStop", update |-> "mysqlUpdate",
     get |-> "mysqlOne", rebuild |-> "mysqlRebuild", reload |-> "mysqlReload",
     move |-> "mysqlMove", changeStatus |-> "mysqlChangeStatus",
     saveEnvironment |-> "mysqlSaveEnvironment",
     saveExternalPort |-> "mysqlSaveExternalPort"]

postgresActionMap ==
    [create |-> "postgresCreate", remove |-> "postgresRemove",
     deploy |-> "postgresDeploy", start |-> "postgresStart",
     stop |-> "postgresStop", update |-> "postgresUpdate",
     get |-> "postgresOne", rebuild |-> "postgresRebuild",
     reload |-> "postgresReload", move |-> "postgresMove",
     changeStatus |-> "postgresChangeStatus",
     saveEnvironment |-> "postgresSaveEnvironment",
     saveExternalPort |-> "postgresSaveExternalPort"]

\* the map with its "duplicate" entry forgotten
projectActionMapNoDuplicate ==
    [list |-> "projectAll", create |-> "projectCreate", get |-> "projectOne",
     update |-> "projectUpdate", remove |-> "projectRemove"]

projectActionMap ==
    [list |-> "projectAll", create |-> "projectCreate", get |-> "projectOne",
     update |-> "projectUpdate", remove |-> "projectRemove",
     duplicate |-> "projectDuplicate"]

actionMap(family) ==
    CASE family = "application" -> applicationActionMap
      [] family = "mysql" -> mysqlActionMap
      [] family = "postgres" -> postgresActionMap
      [] OTHER -> projectActionMap

\* actionMap is an object literal: a name it does not define itself is still
\* looked up on Object.prototype, whose members are truthy and have no handler
ObjectPrototypeKeys ==
    {"constructor", "toString", "valueOf", "hasOwnProperty", "__proto__"}

lookupAny(map, action) ==
    IF action \in DOMAIN map THEN [kind |-> "tool", name |-> map[action]]
    ELSE [kind |-> "tool", name |-> "fallback"]

\* const tool = actionMap[action]
lookup(map, action) ==
    IF action \in DOMAIN map THEN [kind |-> "tool", name |-> map[action]]
    ELSE IF action \in ObjectPrototypeKeys THEN [kind |-> "inherited", name |-> action]
    ELSE [kind |-> "undefined", name |-> ""]

\* the detail of the "Invalid action" error of each router
invalidActionDetail(family, action) ==
    CASE family = "application" -> <<"Action \"", action, "\" is not supported">>
      [] family = "mysql" ->
            <<"Action \"", action, "\" is not supported", " for MySQL database">>
      [] family = "postgres" ->
            <<"Action \"", action, "\" is not supported", " for PostgreSQL database">>
      [] OTHER ->
            <<"Action \"", action, "\" is not supported", " for project management">>

failedTitleNoAction(family, action) == <<"Failed to execute action">>

\* the title of the error a router makes of a failure it caught
failedTitle(family, action) ==
    CASE family = "application" -> <<"Failed to execute action \"", action, "\"">>
      [] family = "mysql" -> <<"Failed to execute MySQL action \"", action, "\"">>
      [] family = "postgres" ->
            <<"Failed to execute PostgreSQL action \"", action, "\"">>
      [] OTHER -> <<"Failed to execute project action \"", action, "\"">>

\* error instanceof Error ? error.message : "Unknown error"
failureDetail(failure) ==
    IF failure.isError THEN <<failure.message>> ELSE <<"Unknown error">>

-----------------------------------------------------------------------------
(* The platform behind the Resource Directory Client *)

ProjectIds == {"p1", "p2"}

\* the one project that exists on the platform; any other id is not found
ExistingProject == "p1"

NoEnvironments == [tag |-> "absent", items |-> <<>>]

Response(kind, message, environments) ==
    [kind |-> kind, message |-> message, environments |-> environments]

RespThrow == Response("throw", "Network Error", NoEnvironments)

RespThrowOther == Response("throwOther", "", NoEnvironments)

RespNoData == Response("nodata", "", NoEnvironments)

RespNoEnvs == Response("data", "", NoEnvironments)

RespNonArray == Response("data", "", [tag |-> "other", items |-> <<>>])

RespEmpty == Response("data", "", [tag |-> "array", items |-> <<>>])

\* one environment known by its id field, one by its environmentId field
RespEnvs ==
    Response("data", "",
             [tag |-> "array",
              items |-> <<[id |-> "e1"], [environmentId |-> "e2"]>>])

DirResponses ==
    {RespThrow, RespThrowOther, RespNoData, RespNoEnvs, RespNonArray,
     RespEmpty, RespEnvs}

\* an environments array with a null in front of its entries
RespNullEntry ==
    Response("data", "",
             [tag |-> "array",
              items |-> <<NullEntry, [id |-> "e1"], [environmentId |-> "e2"]>>])

\* every behaviour of the directory client, malformed data included
AllResponses == DirResponses \cup {RespNullEntry}

-----------------------------------------------------------------------------
(* Per-endpoint handlers (collaborators): how a call of tool.handler ends *)

Failure(isError, message) == [isError |-> isError, message |-> message]

HandlerOutcomes ==
    {[kind |-> "return", failure |-> Null],
     [kind |-> "returnError", failure |-> Null],
     [kind |-> "throw", failure |-> Some(Failure(TRUE, "Request failed"))],
     [kind |-> "throw", failure |-> Some(Failure(FALSE, "rejected"))]}

handlerValue(tool, outcome) ==
    IF outcome.kind = "return"
    THEN ResponseFormatterSuccess(<<"Success: ", tool>>)
    ELSE ResponseFormatterError(<<"Failed: ", tool>>, <<"not found">>)

-----------------------------------------------------------------------------
(* Schemas: the action enum of each consolidated tool *)

applicationActionEnum ==
    {"create", "delete", "deploy", "start", "stop", "update", "get",
     "redeploy", "reload", "move", "cancelDeployment", "cleanQueues",
     "disconnectGitProvider", "markRunning", "readAppMonitoring",
     "readTraefikConfig", "refreshToken", "saveBitbucketProvider",
     "saveBuildType", "saveDockerProvider", "saveEnvironment",
     "saveGitProvider", "saveGiteaProvider", "saveGithubProvider",
     "saveGitlabProvider", "updateTraefikConfig", "domainCreate",
     "domainDelete", "domainUpdate", "domainGet", "domainByApplicationId",
     "domainByComposeId", "domainGenerateDomain",
     "domainCanGenerateTraefikMeDomains", "domainValidate"}

mysqlActionEnum ==
    {"create", "remove", "deploy", "start", "stop", "update", "get",
     "rebuild", "reload", "move", "changeStatus", "saveEnvironment",
     "saveExternalPort"}

postgresActionEnum ==
    {"create", "remove", "deploy", "start", "stop", "update", "get",
     "rebuild", "reload", "move", "changeStatus", "saveEnvironment",
     "saveExternalPort"}

projectActionEnum ==
    {"list", "create", "get", "update", "remove", "duplicate"}

actionEnum(family) ==
    CASE family = "application" -> applicationActionEnum
      [] family = "mysql" -> mysqlActionEnum
      [] family = "postgres" -> postgresActionEnum
      [] OTHER -> projectActionEnum

\* every name some schema accepts
ActionEnums == UNION {actionEnum(f) : f \in Families}

-----------------------------------------------------------------------------
(* Inputs of a consolidated tool: {action, params?} *)

BagValues(k) ==
    CASE k = "projectId" -> {"", "p1", "p2"}
      [] k = "environmentId" -> {"", "e1", "e2", "e3"}
      [] k = "targetEnvironmentId" -> {"", "e1", "e3"}
      [] OTHER -> {"a1"}

AllValues == UNION {BagValues(k) : k \in Keys}

Bags ==
    {b \in UNION {[D -> AllValues] : D \in SUBSET Keys} :
        \A k \in DOMAIN b : b[k] \in BagValues(k)}

FewBags ==
    {EmptyBag, [applicationId |-> "a1"], [projectId |-> "p2"],
     [environmentId |-> "e3"]}

ActionNames ==
    {"get", "create", "move", "delete", "remove", "list", "duplicate",
     "domainGet", "bogus", "constructor"}

Input(family, action, hasParams, params) ==
    [family |-> family, action |-> action, hasParams |-> hasParams,
     params |-> params]

Inputs ==
    {Input("application", a, TRUE, b) : a \in {"get", "bogus"}, b \in Bags}
    \cup {Input(f, a, TRUE, b) : f \in Families, a \in ActionNames, b \in FewBags}
    \cup {Input(f, "get", FALSE, EmptyBag) : f \in Families}

\* every input the schemas accept, over a few bags
SchemaInputs ==
    {Input(f, a, TRUE, b) : f \in Families, a \in ActionEnums,
                            b \in FewBags \cup {[environmentId |-> "e1",
                                                  targetEnvironmentId |-> "e2"]}}
    \cup {Input(f, a, FALSE, EmptyBag) : f \in Families, a \in ActionEnums}

ConcInputs ==
    {Input("application", "get", TRUE, [applicationId |-> "a1"]),
     Input("mysql", "create", TRUE, [environmentId |-> "e3"]),
     Input("project", "get", TRUE, [projectId |-> "p2"]),
     Input("postgres", "move", TRUE,
           [environmentId |-> "e1", targetEnvironmentId |-> "e2"]),
     Input("application", "bogus", FALSE, EmptyBag)}

ConcResponses == {RespThrow, RespEnvs}

-----------------------------------------------------------------------------
(* State *)

IdleInv ==
    [pc |-> "idle", family |-> "application", action |-> "", hasParams |-> FALSE,
     supplied |-> EmptyBag, params |-> EmptyBag, lockError |-> Null,
     gate |-> "pending", lookups |-> <<>>, consulted |-> FALSE, calls |-> <<>>,
     failure |-> Null, result |-> Null, again |-> Null]

\* no helper called yet
NoProbe == [op |-> "none", candidate |-> Null, verdict |-> Null, effective |-> Null]

Init ==
    /\ env \in EnvValues
    /\ config = Null
    /\ directory = [p \in ProjectIds |->
                        IF p = ExistingProject THEN RespEnvs ELSE RespNoData]
    /\ inv = [i \in Invs |-> IdleInv]
    /\ startup = NotValidated
    /\ probe = NoProbe

\* the gate's outcome g, written into invocation record r
Gated(r, g) ==
    [r EXCEPT !.pc = g.pc, !.params = g.params, !.lockError = g.lockError,
              !.gate = g.gate]

\* A consolidated handler is called: params defaults to {}, and
\* enforceProjectLock runs up to its first suspension point.
Invoke(i, in) ==
    /\ inv[i].pc = "idle"
    /\ LET memo == getConfig(config, env)
           b == IF in.hasParams THEN in.params ELSE EmptyBag
           r == [IdleInv EXCEPT !.family = in.family, !.action = in.action,
                                !.hasParams = in.hasParams, !.supplied = b]
       IN  /\ config' = memo
           /\ inv' = [inv EXCEPT ![i] = Gated(r, enforceStart(memo[1], b))]
    /\ UNCHANGED <<env, directory, startup, probe>>

\* The lookup made for params.environmentId settles.
EnvLookupReturn(i) ==
    /\ inv[i].pc = "await_env"
    /\ LET c == getConfig(config, env)[1]
           resp == apiClientGet(directory, c.lockedProjectId[1])
           r == [inv[i] EXCEPT !.lookups =
                    Append(@, [childId |-> inv[i].params["environmentId"],
                               response |-> resp,
                               verdict |-> envVerdict(c, resp,
                                              inv[i].params["environmentId"])])]
       IN  inv' = [inv EXCEPT ![i] = Gated(r, enforceAfterEnv(c, inv[i].params, resp))]
    /\ UNCHANGED <<env, config, directory, startup, probe>>

\* The lookup made for params.targetEnvironmentId settles.
TargetLookupReturn(i) ==
    /\ inv[i].pc = "await_target"
    /\ LET c == getConfig(config, env)[1]
           resp == apiClientGet(directory, c.lockedProjectId[1])
           r == [inv[i] EXCEPT !.lookups =
                    Append(@, [childId |-> inv[i].params["targetEnvironmentId"],
                               response |-> resp,
                               verdict |-> envVerdict(c, resp,
                                              inv[i].params["targetEnvironmentId"])])]
       IN  inv' = [inv EXCEPT ![i] =
                      Gated(r, enforceAfterTarget(c, inv[i].params, resp))]
    /\ UNCHANGED <<env, config, directory, startup, probe>>

-----------------------------------------------------------------------------
(* The router after the gate has answered *)

\* the handler called with the bag as the caller sent it
handlerArgSupplied(r) == r.supplied

\* the argument of tool.handler(params): the bag the gate was given
handlerArg(r) == r.params

\* the action map lookup and the synchronous start of tool.handler(params)
routeAction(r) ==
    LET tool == lookup(actionMap(r.family), r.action)
        typeError == Failure(TRUE, "tool.handler is not a function")
    IN  CASE tool.kind = "undefined" ->
               [r EXCEPT !.pc = "done", !.consulted = TRUE,
                         !.result = Some(ResponseFormatterError(
                             <<"Invalid action">>,
                             invalidActionDetail(r.family, r.action)))]
          [] tool.kind = "inherited" ->
               [r EXCEPT !.pc = "done", !.consulted = TRUE,
                         !.result = Some(ResponseFormatterError(
                             failedTitle(r.family, r.action),
                             failureDetail(typeError)))]
          [] OTHER ->
               [r EXCEPT !.pc = "await_handler", !.consulted = TRUE,
                         !.calls = Append(@, [tool |-> tool.name,
                                              arg |-> handlerArg(r)])]

\* the lockError test left out
routeUngated(r) == routeAction(r)

\* a consolidated handler from the return of enforceProjectLock on:
\* r is the invocation record at pc = "gated"
route(r) ==
    IF r.lockError # Null
    THEN [r EXCEPT !.pc = "done", !.result = r.lockError]
    ELSE routeAction(r)

\* lines 78-86: the handler's promise settles with outcome o
settle(r, o) ==
    IF o.kind = "throw"
    THEN [r EXCEPT !.pc = "done", !.failure = o.failure,
                   !.result = Some(ResponseFormatterError(
                       failedTitle(r.family, r.action),
                       failureDetail(o.failure[1])))]
    ELSE [r EXCEPT !.pc = "done",
                   !.result = Some(handlerValue(r.calls[Len(r.calls)].tool, o))]

\* await enforceProjectLock(params) resumes the consolidated handler.
Dispatch(i) ==
    /\ inv[i].pc = "gated"
    /\ inv' = [inv EXCEPT ![i] = route(inv[i])]
    /\ UNCHANGED <<env, config, directory, startup, probe>>

\* await tool.handler(params) resumes the consolidated handler.
HandlerReturn(i, o) ==
    /\ inv[i].pc = "await_handler"
    /\ inv' = [inv EXCEPT ![i] = settle(inv[i], o)]
    /\ UNCHANGED <<env, config, directory, startup, probe>>

\* The response is handed to the caller; nothing of the call is retained.
Respond(i) ==
    /\ inv[i].pc = "done"
    /\ inv' = [inv EXCEPT ![i] = IdleInv]
    /\ UNCHANGED <<env, config, directory, startup, probe>>

\* The platform's answer for the existing project changes.
DirectoryChange(resp) ==
    /\ directory[ExistingProject] # resp
    /\ directory' = [directory EXCEPT ![ExistingProject] = resp]
    /\ UNCHANGED <<env, config, inv, startup, probe>>

\* The environment variable is changed while the process runs.
SetEnv(v) ==
    /\ env # v
    /\ env' = v
    /\ UNCHANGED <<config, directory, inv, startup, probe>>

\* One invocation at a time, every input.
Next ==
    \/ \E in \in Inputs : Invoke(1, in)
    \/ EnvLookupReturn(1)
    \/ TargetLookupReturn(1)
    \/ Dispatch(1)
    \/ \E o \in HandlerOutcomes : HandlerReturn(1, o)
    \/ Respond(1)
    \/ \E resp \in DirResponses : DirectoryChange(resp)
    \/ \E v \in EnvValues : SetEnv(v)

Spec == Init /\ [][Next]_vars

\* Concurrent invocations, interleaved at every suspension point.
NextConc ==
    \/ \E i \in Invs, in \in ConcInputs : Invoke(i, in)
    \/ \E i \in Invs : EnvLookupReturn(i)
    \/ \E i \in Invs : TargetLookupReturn(i)
    \/ \E i \in Invs : Dispatch(i)
    \/ \E i \in Invs, o \in HandlerOutcomes : HandlerReturn(i, o)
    \/ \E i \in Invs : Respond(i)
    \/ \E resp \in ConcResponses : DirectoryChange(resp)
    \/ \E v \in EnvValues : SetEnv(v)

SpecConc == Init /\ [][NextConc]_vars

-----------------------------------------------------------------------------
(* enforceProjectLock called again on a bag it has let through *)

\* the second call answered from the first call's outcome, without lookups
RegateCached(i) ==
    /\ inv[i].pc = "gated"
    /\ inv[i].gate = "proceed"
    /\ inv[i].again = Null
    /\ config' = getConfig(config, env)
    /\ inv' = [inv EXCEPT ![i] =
                  [inv[i] EXCEPT !.again = Some(inv[i].params), !.lookups = <<>>]]
    /\ UNCHANGED <<env, directory, startup, probe>>

\* enforceProjectLock(params) is called a second time on the same bag
\* object, once the first call has returned null; again keeps the bag as
\* the first call left it, lookups restarts as the record of this call.
Regate(i) ==
    /\ inv[i].pc = "gated"
    /\ inv[i].gate = "proceed"
    /\ inv[i].again = Null
    /\ LET memo == getConfig(config, env)
           r == [inv[i] EXCEPT !.again = Some(inv[i].params), !.lookups = <<>>]
       IN  /\ config' = memo
           /\ inv' = [inv EXCEPT ![i] =
                         Gated(r, enforceStart(memo[1], inv[i].params))]
    /\ UNCHANGED <<env, directory, startup, probe>>

\* One invocation at a time, gated once or twice before it is routed.
NextTwice ==
    \/ \E b \in Bags : Invoke(1, Input("application", "get", TRUE, b))
    \/ Regate(1)
    \/ EnvLookupReturn(1)
    \/ TargetLookupReturn(1)
    \/ Dispatch(1)
    \/ \E o \in HandlerOutcomes : HandlerReturn(1, o)
    \/ Respond(1)
    \/ \E resp \in DirResponses : DirectoryChange(resp)
    \/ \E v \in EnvValues : SetEnv(v)

SpecTwice == Init /\ [][NextTwice]_vars

-----------------------------------------------------------------------------
(* The gate against every behaviour of the directory client *)

\* One invocation at a time, the platform answering in any way it can.
NextAnyDirectory ==
    \/ \E b \in Bags : Invoke(1, Input("application", "get", TRUE, b))
    \/ EnvLookupReturn(1)
    \/ TargetLookupReturn(1)
    \/ Dispatch(1)
    \/ \E o \in HandlerOutcomes : HandlerReturn(1, o)
    \/ Respond(1)
    \/ \E resp \in AllResponses : DirectoryChange(resp)
    \/ \E v \in EnvValues : SetEnv(v)

SpecAnyDirectory == Init /\ [][NextAnyDirectory]_vars

-----------------------------------------------------------------------------
(* Bags that carry keys the gate has no business with *)

\* bags holding, next to the scoping keys, keys of the endpoints
\* (applicationId, mysqlId, sourceProjectId), one of them a project id
FrameInputs ==
    {Input("application", "get", TRUE, [applicationId |-> "a1"]),
     Input("project", "duplicate", TRUE, [sourceProjectId |-> "p2"]),
     Input("mysql", "move", TRUE,
           [environmentId |-> "e1", targetEnvironmentId |-> "e2",
            mysqlId |-> "m1"]),
     Input("project", "duplicate", TRUE,
           [environmentId |-> "e1", targetEnvironmentId |-> "e2",
            sourceProjectId |-> "p2"])}

\* Concurrent invocations over those bags.
NextFrame ==
    \/ \E i \in Invs, in \in FrameInputs : Invoke(i, in)
    \/ \E i \in Invs : EnvLookupReturn(i)
    \/ \E i \in Invs : TargetLookupReturn(i)
    \/ \E i \in Invs : Dispatch(i)
    \/ \E i \in Invs, o \in HandlerOutcomes : HandlerReturn(i, o)
    \/ \E i \in Invs : Respond(i)
    \/ \E resp \in ConcResponses : DirectoryChange(resp)
    \/ \E v \in EnvValues : SetEnv(v)

SpecFrame == Init /\ [][NextFrame]_vars

-----------------------------------------------------------------------------
(* The consolidated tools behind their schemas *)

\* the schema has parsed the input: the action is in the tool's enum
SchemaInvoke(i, in) == in.action \in actionEnum(in.family) /\ Invoke(i, in)

\* One invocation at a time, schema-valid inputs only.
NextSchema ==
    \/ \E in \in SchemaInputs : SchemaInvoke(1, in)
    \/ EnvLookupReturn(1)
    \/ TargetLookupReturn(1)
    \/ Dispatch(1)
    \/ \E o \in HandlerOutcomes : HandlerReturn(1, o)
    \/ Respond(1)
    \/ \E resp \in ConcResponses : DirectoryChange(resp)
    \/ \E v \in EnvValues : SetEnv(v)

SpecSchema == Init /\ [][NextSchema]_vars

-----------------------------------------------------------------------------
(* The exported synchronous helpers, called on their own *)

\* projectId?: string -- undefined, empty, or a project id
Candidates == {Null, Some(""), Some("p1"), Some("p2")}

\* validateProjectId(projectId), the exported wrapper
CallValidateProjectId(candidate) ==
    /\ config' = getConfig(config, env)
    /\ probe' = [op |-> "validateProjectId", candidate |-> candidate,
                 verdict |-> validateProjectId(getConfig(config, env)[1], candidate),
                 effective |-> Null]
    /\ UNCHANGED <<env, directory, inv, startup>>

\* getProjectIdForParams(projectId) / getEffectiveProjectId(projectId)
CallGetEffectiveProjectId(candidate) ==
    /\ config' = getConfig(config, env)
    /\ probe' = [op |-> "getEffectiveProjectId", candidate |-> candidate,
                 verdict |-> Null,
                 effective |-> getEffectiveProjectId(getConfig(config, env)[1],
                                                     candidate)]
    /\ UNCHANGED <<env, directory, inv, startup>>

\* The helpers called in any order, with the variable and the platform
\* changing in between.
NextHelpers ==
    \/ \E candidate \in Candidates : CallValidateProjectId(candidate)
    \/ \E candidate \in Candidates : CallGetEffectiveProjectId(candidate)
    \/ \E resp \in DirResponses : DirectoryChange(resp)
    \/ \E v \in EnvValues : SetEnv(v)

SpecHelpers == Init /\ [][NextHelpers]_vars

-----------------------------------------------------------------------------
(* The server: startup validation, then the consolidated tools *)

\* validateLockedProject is called, once, while nothing is served yet.
ValidateLockedProject ==
    /\ startup.pc = "notRun"
    /\ \A i \in Invs : inv[i].pc = "idle"
    /\ config' = getConfig(config, env)
    /\ startup' = validateStart(getConfig(config, env)[1])
    /\ UNCHANGED <<env, directory, inv, probe>>

\* The project.one lookup of validateLockedProject settles.
ValidateLookupReturn ==
    /\ startup.pc = "await_project"
    /\ LET c == getConfig(config, env)[1]
       IN  startup' = validateAfterLookup(c,
                          apiClientGet(directory, c.lockedProjectId[1]))
    /\ UNCHANGED <<env, config, directory, inv, probe>>

\* tool calls taken from the moment the process is up
ServingUnvalidated == TRUE

\* tool calls are taken once validateLockedProject has resolved; its
\* rejection ends the process
Serving == startup.pc = "ok"

ServerInvoke(i, in) == Serving /\ Invoke(i, in)

\* One server process: validation at startup, then one invocation at a time.
NextServer ==
    \/ ValidateLockedProject
    \/ ValidateLookupReturn
    \/ \E in \in ConcInputs : ServerInvoke(1, in)
    \/ EnvLookupReturn(1)
    \/ TargetLookupReturn(1)
    \/ Dispatch(1)
    \/ \E o \in HandlerOutcomes : HandlerReturn(1, o)
    \/ Respond(1)
    \/ \E resp \in DirResponses : DirectoryChange(resp)
    \/ \E v \in EnvValues : SetEnv(v)

SpecServer == Init /\ [][NextServer]_vars

-----------------------------------------------------------------------------
(* Vocabulary of the properties *)

Started(i) == inv[i].pc # "idle"

\* the lock as the gate sees it: the memoized configuration
LockEnabled == config # Null /\ config[1].isEnabled

LockDisabled == config # Null /\ ~config[1].isEnabled

LockedId == config[1].lockedProjectId[1]

Parts(text) == {text[n] : n \in DOMAIN text}

DenialTitles ==
    {<<"Project lock violation">>, <<"Environment validation failed">>,
     <<"Target environment validation failed">>}

\* id is among the members a project.one response reports
ReportedMember(resp, id) ==
    /\ resp.kind = "data"
    /\ resp.environments.tag = "array"
    /\ \E n \in DOMAIN resp.environments.items :
          LET e == resp.environments.items[n]
          IN  \/ ("id" \in DOMAIN e /\ e["id"] = id)
              \/ ("environmentId" \in DOMAIN e /\ e["environmentId"] = id)

ChildKeys == {"environmentId", "targetEnvironmentId"}

-----------------------------------------------------------------------------
(* C1 *)

\* C1: in every invocation, under any interleaving, the action map is
\* consulted and a handler is invoked only once enforceProjectLock has
\* returned null for that invocation; while the gate is undecided nothing is
\* dispatched; after a denial the response is exactly the gate's denial, the
\* action map is never consulted and no handler is invoked.
C1_GateBeforeDispatch ==
    \A i \in Invs :
        /\ (inv[i].consulted \/ inv[i].calls # <<>>) =>
              /\ inv[i].gate = "proceed"
              /\ inv[i].lockError = Null
              /\ inv[i].pc \in {"await_handler", "done"}
        /\ inv[i].pc \in {"await_env", "await_target"} => inv[i].gate = "pending"
        /\ inv[i].gate = "denied" =>
              /\ inv[i].lockError # Null
              /\ inv[i].lockError[1].isError
              /\ inv[i].lockError[1].title \in DenialTitles
              /\ ~inv[i].consulted
              /\ inv[i].calls = <<>>
              /\ inv[i].pc = "done" => inv[i].result = inv[i].lockError

\* one invocation has been denied and answered while another, gated later,
\* is inside its handler
C1_Witness ==
    \E i, j \in Invs :
        /\ i # j
        /\ inv[i].pc = "done" /\ inv[i].gate = "denied"
        /\ inv[j].pc = "await_handler" /\ inv[j].gate = "proceed"

-----------------------------------------------------------------------------
(* C2 *)

\* C2, as claimed: with the lock enabled, a bag the gate let through has
\* projectId equal to the locked id, and every environmentId /
\* targetEnvironmentId present in it was reported as a member of the locked
\* project by the project.one lookup made for it.  ("Present" is read here
\* in the way most favourable to the claim, as present and non-empty.)
C2_AsClaimed ==
    \A i \in Invs :
        (LockEnabled /\ inv[i].gate = "proceed") =>
            /\ "projectId" \in DOMAIN inv[i].params
            /\ inv[i].params["projectId"] = LockedId
            /\ \A k \in ChildKeys :
                  (k \in DOMAIN inv[i].params /\ inv[i].params[k] # "") =>
                      \E n \in DOMAIN inv[i].lookups :
                          /\ inv[i].lookups[n].childId = inv[i].params[k]
                          /\ ReportedMember(inv[i].lookups[n].response,
                                            inv[i].params[k])

\* C2, amended: with the lock enabled, a bag the gate let through has
\* projectId equal to the locked id, and for every non-empty environmentId /
\* targetEnvironmentId in it a project.one lookup was made that returned
\* data, and that reported the id as a member whenever the data carried an
\* environments array.
C2_ScopedAfterGate ==
    \A i \in Invs :
        (LockEnabled /\ inv[i].gate = "proceed") =>
            /\ "projectId" \in DOMAIN inv[i].params
            /\ inv[i].params["projectId"] = LockedId
            /\ \A k \in ChildKeys :
                  (k \in DOMAIN inv[i].params /\ inv[i].params[k] # "") =>
                      \E n \in DOMAIN inv[i].lookups :
                          LET l == inv[i].lookups[n]
                          IN  /\ l.childId = inv[i].params[k]
                              /\ l.response.kind = "data"
                              /\ l.response.environments.tag = "array" =>
                                    ReportedMember(l.response, l.childId)

\* a bag with both child ids went through, each against a reported list
C2_Witness ==
    \E i \in Invs :
        /\ LockEnabled /\ inv[i].gate = "proceed"
        /\ "projectId" \notin DOMAIN inv[i].supplied
        /\ Truthy(inv[i].params, "environmentId")
        /\ Truthy(inv[i].params, "targetEnvironmentId")
        /\ Len(inv[i].lookups) = 2
        /\ \A n \in {1, 2} :
              ReportedMember(inv[i].lookups[n].response, inv[i].lookups[n].childId)

-----------------------------------------------------------------------------
(* C3 *)

\* C3, as claimed: with the lock enabled, a supplied projectId that is
\* present and differs from the locked id is denied with title "Project lock
\* violation", and the bag stays as supplied.
C3_AsClaimed ==
    \A i \in Invs :
        (/\ Started(i) /\ LockEnabled
         /\ "projectId" \in DOMAIN inv[i].supplied
         /\ inv[i].supplied["projectId"] # LockedId) =>
            /\ inv[i].gate = "denied"
            /\ inv[i].lockError[1].title = <<"Project lock violation">>
            /\ inv[i].params = inv[i].supplied

\* C3, amended: with the lock enabled, a supplied projectId that is non-empty
\* and differs from the locked id is denied with title "Project lock
\* violation", and the bag stays as supplied.
C3_MismatchDenied ==
    \A i \in Invs :
        (/\ Started(i) /\ LockEnabled
         /\ "projectId" \in DOMAIN inv[i].supplied
         /\ inv[i].supplied["projectId"] # ""
         /\ inv[i].supplied["projectId"] # LockedId) =>
            /\ inv[i].gate = "denied"
            /\ inv[i].lockError # Null
            /\ inv[i].lockError[1].isError
            /\ inv[i].lockError[1].title = <<"Project lock violation">>
            /\ inv[i].params = inv[i].supplied
            /\ inv[i].lookups = <<>>

\* a call for another project, carrying child ids too, has been denied
C3_Witness ==
    \E i \in Invs :
        /\ LockEnabled /\ LockedId = "p1"
        /\ inv[i].pc = "done"
        /\ "projectId" \in DOMAIN inv[i].supplied
        /\ inv[i].supplied["projectId"] = "p2"
        /\ Truthy(inv[i].supplied, "environmentId")
        /\ inv[i].result = inv[i].lockError
        /\ inv[i].gate = "denied"

-----------------------------------------------------------------------------
(* C4 *)

\* C4: with the lock enabled and no projectId in the supplied bag (absent,
\* or empty), whenever the gate lets the call through, the bag the router
\* holds and hands to the handler is the supplied bag itself with projectId
\* set to the locked id.
C4_Injection ==
    \A i \in Invs :
        (/\ LockEnabled /\ inv[i].gate = "proceed"
         /\ ("projectId" \notin DOMAIN inv[i].supplied
             \/ inv[i].supplied["projectId"] = "")) =>
            /\ DOMAIN inv[i].params = DOMAIN inv[i].supplied \cup {"projectId"}
            /\ inv[i].params["projectId"] = LockedId
            /\ \A k \in DOMAIN inv[i].supplied \ {"projectId"} :
                  inv[i].params[k] = inv[i].supplied[k]
            /\ \A n \in DOMAIN inv[i].calls : inv[i].calls[n].arg = inv[i].params

\* a handler is running on a bag that was supplied without projectId
C4_Witness ==
    \E i \in Invs :
        /\ LockEnabled /\ inv[i].pc = "await_handler"
        /\ inv[i].hasParams
        /\ "projectId" \notin DOMAIN inv[i].supplied
        /\ "applicationId" \in DOMAIN inv[i].supplied
        /\ inv[i].calls[1].arg["projectId"] = LockedId

-----------------------------------------------------------------------------
(* C5 *)

\* C5: with the lock disabled, every call is let through at once, its bag is
\* left as supplied and no directory lookup is made for it, whatever the bag
\* carries.
C5_DisabledIsNoOp ==
    \A i \in Invs :
        (Started(i) /\ LockDisabled) =>
            /\ inv[i].gate = "proceed"
            /\ inv[i].lockError = Null
            /\ inv[i].params = inv[i].supplied
            /\ inv[i].lookups = <<>>
            /\ inv[i].pc \notin {"await_env", "await_target"}

\* an unlocked call carrying a foreign project and both child ids went through
C5_Witness ==
    \E i \in Invs :
        /\ LockDisabled /\ inv[i].pc = "gated"
        /\ "projectId" \in DOMAIN inv[i].supplied
        /\ inv[i].supplied["projectId"] = "p2"
        /\ Truthy(inv[i].supplied, "environmentId")
        /\ Truthy(inv[i].supplied, "targetEnvironmentId")
        /\ inv[i].gate = "proceed"

-----------------------------------------------------------------------------
(* C6 *)

-----------------------------------------------------------------------------
(* C7 *)

\* C7: a lookup that throws, or that returns no data, yields a violation,
\* and the gate denies the call with it; such a call is never let through.
C7_FailedLookupDenies ==
    \A i \in Invs : \A n \in DOMAIN inv[i].lookups :
        LET l == inv[i].lookups[n]
        IN  l.response.kind \in {"throw", "throwOther", "nodata"} =>
                /\ l.verdict # Null
                /\ n = Len(inv[i].lookups)
                /\ inv[i].gate = "denied"
                /\ inv[i].lockError # Null
                /\ inv[i].lockError[1].detail = l.verdict[1]
                /\ inv[i].calls = <<>>

\* the second lookup of a call failed after its first had passed, and the
\* caller got the denial
C7_Witness ==
    \E i \in Invs :
        /\ inv[i].pc = "done"
        /\ Len(inv[i].lookups) = 2
        /\ inv[i].lookups[1].verdict = Null
        /\ inv[i].lookups[2].response.kind = "throw"
        /\ inv[i].result # Null
        /\ inv[i].result[1].title = <<"Target environment validation failed">>

-----------------------------------------------------------------------------
(* C8 *)

InMap(i) == inv[i].action \in DOMAIN actionMap(inv[i].family)

\* C8: no invocation ever calls more than one handler or calls one twice; a
\* call that passed the gate with an action of its family's map has called
\* exactly the handler mapped to that action, once, and a handler failure
\* ends the invocation without another call; an action that is not in the
\* map calls no handler.
C8_ExactlyOneHandler ==
    \A i \in Invs :
        /\ Len(inv[i].calls) <= 1
        /\ (inv[i].pc \in {"await_handler", "done"} /\ inv[i].gate = "proceed"
            /\ InMap(i)) =>
              /\ Len(inv[i].calls) = 1
              /\ inv[i].calls[1].tool = actionMap(inv[i].family)[inv[i].action]
        /\ (Started(i) /\ ~InMap(i)) => inv[i].calls = <<>>
        /\ inv[i].failure # Null =>
              /\ inv[i].pc = "done"
              /\ Len(inv[i].calls) = 1

\* the handler mapped to "list" in the project router failed, and was called
\* once
C8_Witness ==
    \E i \in Invs :
        /\ inv[i].pc = "done"
        /\ inv[i].family = "project" /\ inv[i].action = "list"
        /\ inv[i].failure # Null
        /\ inv[i].calls = <<[tool |-> "projectAll", arg |-> inv[i].params]>>

-----------------------------------------------------------------------------
(* C9 *)

\* C9, as claimed: a failure raised by the handler is returned as an error
\* envelope whose title carries the action name and whose detail is the
\* failure's message.
C9_AsClaimed ==
    \A i \in Invs :
        inv[i].failure # Null =>
            /\ inv[i].pc = "done"
            /\ inv[i].result # Null
            /\ inv[i].result[1].isError
            /\ inv[i].action \in Parts(inv[i].result[1].title)
            /\ inv[i].result[1].detail = <<inv[i].failure[1].message>>

\* C9, amended: a failure raised by the handler never leaves the router: it
\* is returned as an error envelope whose title carries the action name and
\* whose detail is the failure's message when the failure is an Error, and
\* "Unknown error" when it is anything else.
C9_FailureWrapped ==
    \A i \in Invs :
        inv[i].failure # Null =>
            /\ inv[i].pc = "done"
            /\ inv[i].result # Null
            /\ inv[i].result[1].isError
            /\ inv[i].action \in Parts(inv[i].result[1].title)
            /\ inv[i].failure[1].isError =>
                  inv[i].result[1].detail = <<inv[i].failure[1].message>>
            /\ ~inv[i].failure[1].isError =>
                  inv[i].result[1].detail = <<"Unknown error">>

\* the PostgreSQL router has answered a handler's Error
C9_Witness ==
    \E i \in Invs :
        /\ inv[i].pc = "done"
        /\ inv[i].family = "postgres" /\ inv[i].action = "move"
        /\ inv[i].failure = Some(Failure(TRUE, "Request failed"))
        /\ inv[i].result[1].title =
              <<"Failed to execute PostgreSQL action \"", "move", "\"">>
        /\ inv[i].result[1].detail = <<"Request failed">>

-----------------------------------------------------------------------------
(* C10 *)

\* wordings by which an error text names a resource family
FamilyPhrases(family) ==
    CASE family = "application" ->
            {" for application", " for applications", " for application management"}
      [] family = "mysql" -> {" for MySQL", " for MySQL database"}
      [] family = "postgres" -> {" for PostgreSQL", " for PostgreSQL database"}
      [] OTHER -> {" for project", " for projects", " for project management"}

\* C10: in every family, a call that passed the gate with an action absent
\* from the action map is answered by the "Invalid action" error, whose
\* detail names both the family and the action.
C10_AsClaimed ==
    \A i \in Invs :
        (inv[i].pc = "done" /\ inv[i].gate = "proceed" /\ ~InMap(i)) =>
            /\ inv[i].result # Null
            /\ inv[i].result[1].isError
            /\ inv[i].result[1].title = <<"Invalid action">>
            /\ inv[i].action \in Parts(inv[i].result[1].detail)
            /\ Parts(inv[i].result[1].detail) \cap FamilyPhrases(inv[i].family) # {}

-----------------------------------------------------------------------------
(* C11 *)

\* C11, as claimed: whatever the bag and the lock configuration, a call
\* whose action is not a key of its family's action map is answered by the
\* "Invalid action" error, and no handler is invoked.  ("Not present in the
\* action map" is read here in the way most favourable to the claim, as
\* not found by actionMap[action] at all.)
C11_AsClaimed ==
    \A i \in Invs :
        (Started(i) /\ ~InMap(i) /\ inv[i].action \notin ObjectPrototypeKeys) =>
            /\ inv[i].calls = <<>>
            /\ inv[i].pc = "done" =>
                  /\ inv[i].result # Null
                  /\ inv[i].result[1].isError
                  /\ inv[i].result[1].title = <<"Invalid action">>

\* C11, amended: a call whose action is not a key of its family's action
\* map never invokes a handler; when the gate denies the call the answer is
\* the gate's denial and the action map is not consulted; when the gate
\* lets the call through the answer is the "Invalid action" error naming
\* the action, except that a name inherited from Object.prototype is
\* answered by the "Failed to execute" error naming the action.
C11_UnknownActionRejected ==
    \A i \in Invs :
        (Started(i) /\ ~InMap(i)) =>
            /\ inv[i].calls = <<>>
            /\ inv[i].pc # "await_handler"
            /\ (inv[i].pc = "done" /\ inv[i].gate = "denied") =>
                  /\ inv[i].result = inv[i].lockError
                  /\ ~inv[i].consulted
            /\ (inv[i].pc = "done" /\ inv[i].gate = "proceed") =>
                  /\ inv[i].consulted
                  /\ inv[i].result # Null
                  /\ inv[i].result[1].isError
                  /\ inv[i].action \notin ObjectPrototypeKeys =>
                        /\ inv[i].result[1].title = <<"Invalid action">>
                        /\ inv[i].action \in Parts(inv[i].result[1].detail)
                  /\ inv[i].action \in ObjectPrototypeKeys =>
                        /\ inv[i].result[1].title # <<"Invalid action">>
                        /\ inv[i].action \in Parts(inv[i].result[1].title)
                        /\ inv[i].result[1].detail =
                              <<"tool.handler is not a function">>

\* "bogus" sent to the MySQL router with the lock enabled and a bag that
\* passes the gate: the "Invalid action" error is the answer
C11_Witness ==
    \E i \in Invs :
        /\ LockEnabled
        /\ inv[i].pc = "done" /\ inv[i].gate = "proceed"
        /\ inv[i].family = "mysql" /\ inv[i].action = "bogus"
        /\ inv[i].calls = <<>>
        /\ inv[i].result[1].title = <<"Invalid action">>

-----------------------------------------------------------------------------
(* C12 *)

\* C12: once getConfig has produced the configuration, no later step of any
\* invocation, in any interleaving, replaces it, whatever the environment
\* variable has become in the meantime; and every invocation that starts
\* afterwards is gated by that configuration: with the lock enabled in it
\* the bag is denied or carries its locked id, with the lock disabled in it
\* the bag goes through untouched.
C12_ConfigMemoized ==
    [][/\ config # Null => config' = config
       /\ \A i \in Invs :
             (config # Null /\ inv[i].pc = "idle" /\ inv'[i].pc # "idle") =>
                 /\ config[1].isEnabled =>
                       \/ inv'[i].gate = "denied"
                       \/ /\ "projectId" \in DOMAIN inv'[i].params
                          /\ inv'[i].params["projectId"] =
                                config[1].lockedProjectId[1]
                 /\ ~config[1].isEnabled =>
                       /\ inv'[i].gate = "proceed"
                       /\ inv'[i].params = inv'[i].supplied]_vars

\* the variable now names another project than the configuration loaded on
\* first access, and two invocations have had the configuration's id
\* injected
C12_Witness ==
    \E i, j \in Invs :
        /\ i # j
        /\ config # Null
        /\ config[1].lockedProjectId = Some("p1")
        /\ env = Some("p2")
        /\ \A k \in {i, j} :
              /\ Started(k)
              /\ "projectId" \notin DOMAIN inv[k].supplied
              /\ inv[k].params = Assign(inv[k].supplied, "projectId", "p1")

-----------------------------------------------------------------------------
(* C13 *)

\* C13: in every configuration getConfig produces, isEnabled holds exactly
\* when lockedProjectId is present; loaded while the environment variable is
\* unset or empty, the configuration has no lockedProjectId and isEnabled
\* false; loaded while it has any other value, the configuration has that
\* value as lockedProjectId and isEnabled true.
C13_EnabledIffLocked ==
    [][/\ config' # Null =>
             /\ config'[1].isEnabled <=> (config'[1].lockedProjectId # Null)
             /\ config'[1].lockedProjectId # Some("")
       /\ (config = Null /\ config' # Null) =>
             /\ env \in {Null, Some("")} =>
                   config'[1] = [lockedProjectId |-> Null, isEnabled |-> FALSE]
             /\ env \notin {Null, Some("")} =>
                   config'[1] = [lockedProjectId |-> env, isEnabled |-> TRUE]]_vars

\* the variable is set but empty, and the configuration in use is the
\* disabled one, under which a call has gone through the gate
C13_Witness ==
    /\ env = Some("")
    /\ config = Some([lockedProjectId |-> Null, isEnabled |-> FALSE])
    /\ \E i \in Invs : inv[i].gate = "proceed"

-----------------------------------------------------------------------------
(* C14 *)

\* C14: once validateLockedProject has settled, with the lock disabled it
\* has succeeded without any lookup, and with the lock enabled it has made
\* exactly one project.one lookup, has succeeded exactly when that lookup
\* returned data, and has otherwise -- no data, or an error of the client
\* call -- failed with the error "Invalid DOKPLOY_LOCKED_PROJECT_ID ..."
\* naming the locked id; it awaits a lookup only with the lock enabled.
C14_StartupValidation ==
    /\ startup.pc = "await_project" => (LockEnabled /\ startup.lookups = <<>>)
    /\ startup.pc \in {"ok", "failed"} =>
          /\ LockDisabled =>
                /\ startup.pc = "ok"
                /\ startup.lookups = <<>>
                /\ startup.error = Null
          /\ LockEnabled =>
                /\ Len(startup.lookups) = 1
                /\ startup.pc = "ok" <=> startup.lookups[1].kind = "data"
                /\ startup.pc = "ok" => startup.error = Null
                /\ startup.pc = "failed" =>
                      /\ startup.lookups[1].kind \in {"nodata", "throw", "throwOther"}
                      /\ startup.error # Null
                      /\ startup.error[1][1] =
                            "Invalid DOKPLOY_LOCKED_PROJECT_ID: Project \""
                      /\ startup.error[1][2] = LockedId

\* the lock names the existing project and the platform answered the
\* startup lookup without data
C14_Witness ==
    /\ LockEnabled
    /\ LockedId = ExistingProject
    /\ startup.pc = "failed"
    /\ startup.lookups = <<RespNoData>>
    /\ startup.error =
          Some(<<"Invalid DOKPLOY_LOCKED_PROJECT_ID: Project \"", "p1",
                 "\" does not exist or is not accessible. ",
                 "Project with ID \"", "p1", "\" not found">>)

-----------------------------------------------------------------------------
(* C15 *)

\* C15: no invocation of a consolidated tool is under way unless startup
\* validation has run and succeeded; with the lock enabled that means its
\* lookup found the locked project; and once startup validation has failed
\* it stays failed, so no call is ever served.
C15_ValidatedBeforeServing ==
    [][/\ \A i \in Invs : inv'[i].pc # "idle" => startup'.pc = "ok"
       /\ (startup'.pc = "ok" /\ config'[1].isEnabled) =>
             (Len(startup'.lookups) = 1 /\ startup'.lookups[1].kind = "data")
       /\ startup.pc = "failed" =>
             /\ startup' = startup
             /\ \A i \in Invs : inv'[i].pc = "idle"]_vars

\* the lock is enabled, startup validation found the project, and a gated
\* call has reached its handler
C15_Witness ==
    /\ LockEnabled
    /\ startup.pc = "ok"
    /\ startup.lookups # <<>>
    /\ \E i \in Invs : inv[i].pc = "await_handler" /\ inv[i].gate = "proceed"

-----------------------------------------------------------------------------
(* C16 *)

\* C16, as claimed: a second call of enforceProjectLock on a bag that a
\* first call let through lets it through again and leaves the bag as the
\* first call left it.
C16_AsClaimed ==
    \A i \in Invs :
        (inv[i].again # Null /\ inv[i].gate # "pending") =>
            /\ inv[i].gate = "proceed"
            /\ inv[i].params = inv[i].again[1]

\* C16, amended: a second call of enforceProjectLock on a bag that a first
\* call let through never changes the bag and never denies it for its
\* projectId; it lets the bag through again when the bag carries no
\* non-empty environmentId / targetEnvironmentId, and otherwise exactly
\* when the lookups it makes afresh for them raise no objection; a denial
\* by the second call is an environment or target-environment denial that
\* follows an objection of its last lookup.
C16_SecondCallNoMutation ==
    \A i \in Invs :
        inv[i].again # Null =>
            /\ inv[i].params = inv[i].again[1]
            /\ (\A k \in ChildKeys : ~Truthy(inv[i].again[1], k)) =>
                  (inv[i].gate = "proceed" /\ inv[i].lookups = <<>>)
            /\ inv[i].gate = "proceed" =>
                  \A n \in DOMAIN inv[i].lookups : inv[i].lookups[n].verdict = Null
            /\ inv[i].gate = "denied" =>
                  /\ inv[i].lockError[1].title \in
                        {<<"Environment validation failed">>,
                         <<"Target environment validation failed">>}
                  /\ inv[i].lookups # <<>>
                  /\ inv[i].lookups[Len(inv[i].lookups)].verdict # Null

\* with the lock enabled, a bag whose projectId the first call injected has
\* been let through a second time after a fresh environment lookup
C16_Witness ==
    \E i \in Invs :
        /\ LockEnabled
        /\ inv[i].again # Null
        /\ inv[i].gate = "proceed"
        /\ "projectId" \notin DOMAIN inv[i].supplied
        /\ inv[i].params["projectId"] = LockedId
        /\ Truthy(inv[i].params, "environmentId")
        /\ Len(inv[i].lookups) = 1

-----------------------------------------------------------------------------
(* C17 *)

\* C17: the handler the router selects is called with the bag as the gate
\* left it: with the lock enabled and projectId omitted by the caller, the
\* argument carries projectId equal to the locked id next to the caller's
\* own keys; with the lock disabled the argument is the caller's bag
\* unchanged; and when the caller sent no params at all, the argument is
\* the empty bag the router substituted, with only the injected projectId
\* added under the lock.
C17_HandlerSeesGatedBag ==
    \A i \in Invs :
        \A n \in DOMAIN inv[i].calls :
            LET arg == inv[i].calls[n].arg
            IN  /\ arg = inv[i].params
                /\ (LockEnabled /\ "projectId" \notin DOMAIN inv[i].supplied) =>
                      /\ DOMAIN arg = DOMAIN inv[i].supplied \cup {"projectId"}
                      /\ arg["projectId"] = LockedId
                      /\ \A k \in DOMAIN inv[i].supplied : arg[k] = inv[i].supplied[k]
                /\ LockDisabled => arg = inv[i].supplied
                /\ ~inv[i].hasParams =>
                      /\ inv[i].supplied = EmptyBag
                      /\ LockDisabled => DOMAIN arg = {}
                      /\ LockEnabled =>
                            (DOMAIN arg = {"projectId"} /\ arg["projectId"] = LockedId)

\* a call without params under the lock: its handler has been called with
\* the substituted bag carrying the injected projectId
C17_Witness ==
    \E i \in Invs :
        /\ LockEnabled
        /\ ~inv[i].hasParams
        /\ inv[i].pc = "await_handler"
        /\ Len(inv[i].calls) = 1
        /\ DOMAIN inv[i].calls[1].arg = {"projectId"}
        /\ inv[i].calls[1].arg["projectId"] = LockedId

-----------------------------------------------------------------------------
(* C18 *)

\* the directory responses invocation i has received, in order
Answers(i) == [n \in DOMAIN inv[i].lookups |-> inv[i].lookups[n].response]

-----------------------------------------------------------------------------
(* C19 *)

\* C19: with the lock enabled the gate checks in the order projectId
\* mismatch, injection, environmentId, targetEnvironmentId and stops at the
\* first objection: a mismatching projectId is denied as "Project lock
\* violation" with no lookup made and the bag untouched, whatever else the
\* bag holds; the environmentId lookup is the first lookup and is made on a
\* bag that already carries the locked id; an "Environment validation
\* failed" denial follows that one lookup and no lookup for
\* targetEnvironmentId; a "Target environment validation failed" denial
\* follows the lookup for targetEnvironmentId, made only after the lookup
\* for a non-empty environmentId has raised no objection.
C19_ChecksInOrder ==
    \A i \in Invs :
        (LockEnabled /\ Started(i)) =>
            LET r == inv[i]
                envFirst ==
                    /\ Len(r.lookups) >= 1
                    /\ r.lookups[1].childId = r.params["environmentId"]
            IN  /\ (Truthy(r.supplied, "projectId")
                    /\ r.supplied["projectId"] # LockedId) =>
                      /\ r.gate = "denied"
                      /\ r.lockError[1].title = <<"Project lock violation">>
                      /\ r.lookups = <<>>
                      /\ r.params = r.supplied
                /\ r.gate = "denied" => r.lockError[1].title \in DenialTitles
                /\ r.pc = "await_env" =>
                      (r.lookups = <<>> /\ r.params["projectId"] = LockedId)
                /\ r.pc = "await_target" =>
                      /\ r.params["projectId"] = LockedId
                      /\ Truthy(r.params, "environmentId") =>
                            (envFirst /\ Len(r.lookups) = 1
                             /\ r.lookups[1].verdict = Null)
                      /\ ~Truthy(r.params, "environmentId") => r.lookups = <<>>
                /\ (r.gate = "denied"
                    /\ r.lockError[1].title = <<"Environment validation failed">>) =>
                      /\ envFirst
                      /\ Len(r.lookups) = 1
                      /\ r.lookups[1].verdict # Null
                      /\ r.params["projectId"] = LockedId
                /\ (r.gate = "denied"
                    /\ r.lockError[1].title =
                          <<"Target environment validation failed">>) =>
                      /\ r.lookups # <<>>
                      /\ r.lookups[Len(r.lookups)].childId =
                            r.params["targetEnvironmentId"]
                      /\ r.lookups[Len(r.lookups)].verdict # Null
                      /\ Truthy(r.params, "environmentId") =>
                            (envFirst /\ Len(r.lookups) = 2
                             /\ r.lookups[1].verdict = Null)
                      /\ ~Truthy(r.params, "environmentId") => Len(r.lookups) = 1

\* a bag whose environmentId and targetEnvironmentId are both foreign to the
\* locked project has been denied for its environmentId after one lookup
C19_Witness ==
    \E i \in Invs :
        /\ LockEnabled
        /\ inv[i].gate = "denied"
        /\ inv[i].lockError[1].title = <<"Environment validation failed">>
        /\ Truthy(inv[i].params, "environmentId")
        /\ Truthy(inv[i].params, "targetEnvironmentId")
        /\ inv[i].params["targetEnvironmentId"] = "e3"
        /\ Len(inv[i].lookups) = 1
        /\ inv[i].lookups[1].response = RespEnvs

-----------------------------------------------------------------------------
(* C20 *)

\* a project.one response with data but without an environments array
NoMemberList(resp) == resp.kind = "data" /\ resp.environments.tag # "array"

\* C20: with the lock enabled, a lookup answered with data that carries no
\* environments array raises no objection against any child id, so neither
\* child check denies after such an answer, and a bag all of whose lookups
\* were answered so is let through with its environmentId /
\* targetEnvironmentId unverified.
C20_DegradeToPermissive ==
    \A i \in Invs :
        (LockEnabled /\ Started(i)) =>
            /\ \A n \in DOMAIN inv[i].lookups :
                  NoMemberList(inv[i].lookups[n].response) =>
                      inv[i].lookups[n].verdict = Null
            /\ (inv[i].gate = "denied" /\ inv[i].lookups # <<>>) =>
                  ~NoMemberList(inv[i].lookups[Len(inv[i].lookups)].response)
            /\ (/\ inv[i].pc \notin {"await_env", "await_target"}
                /\ inv[i].lookups # <<>>
                /\ \A n \in DOMAIN inv[i].lookups :
                      NoMemberList(inv[i].lookups[n].response)) =>
                  /\ inv[i].gate = "proceed"
                  /\ inv[i].lockError = Null

\* an environment foreign to the locked project has gone through the gate
\* to a handler on an answer without an environments array
C20_Witness ==
    \E i \in Invs :
        /\ LockEnabled
        /\ inv[i].pc = "await_handler"
        /\ inv[i].gate = "proceed"
        /\ Truthy(inv[i].params, "environmentId")
        /\ inv[i].params["environmentId"] = "e3"
        /\ inv[i].lookups = <<[childId |-> "e3", response |-> RespNoEnvs,
                              verdict |-> Null]>>
        /\ inv[i].calls[1].arg["environmentId"] = "e3"

-----------------------------------------------------------------------------
(* C21 *)

\* C21: no gating result is kept from one call to the next.  With the lock
\* enabled, every call of enforceProjectLock -- the first on a bag or a
\* later one on a bag already let through -- that gets past the projectId
\* check makes its own lookup for a non-empty environmentId and, unless that
\* one denies, for a non-empty targetEnvironmentId; each lookup is answered
\* by the directory as it stands when the lookup settles, and where that
\* answer carries an environments list the call is let past the id exactly
\* when the list then holds it.
C21_NoCachedDecision ==
    [][\A i \in Invs :
          /\ (LockEnabled' /\ inv'[i].gate = "proceed") =>
                \A k \in ChildKeys :
                    Truthy(inv'[i].params, k) =>
                        \E n \in DOMAIN inv'[i].lookups :
                            inv'[i].lookups[n].childId = inv'[i].params[k]
          /\ (inv[i].pc \in {"await_env", "await_target"}
              /\ inv'[i].pc # inv[i].pc) =>
                LET l == inv'[i].lookups[Len(inv'[i].lookups)]
                    now == directory[LockedId]
                IN  /\ Len(inv'[i].lookups) = Len(inv[i].lookups) + 1
                    /\ l.response = now
                    /\ ReportedMember(now, l.childId) =>
                          inv'[i].gate # "denied"
                    /\ (now.kind = "data" /\ now.environments.tag = "array"
                        /\ ~ReportedMember(now, l.childId)) =>
                          inv'[i].gate = "denied"]_vars

\* the environment that the first call found in the locked project had left
\* it when the second call on the same bag looked it up: the second call
\* denied
C21_Witness ==
    \E i \in Invs :
        /\ LockEnabled
        /\ inv[i].again # Null
        /\ Truthy(inv[i].again[1], "environmentId")
        /\ inv[i].again[1]["environmentId"] = "e1"
        /\ inv[i].gate = "denied"
        /\ inv[i].lookups = <<[childId |-> "e1", response |-> RespEmpty,
                              verdict |-> envVerdict(config[1], RespEmpty, "e1")]>>

-----------------------------------------------------------------------------
(* C22 *)

\* C22, as claimed: validateProjectId(candidate) returns a violation exactly
\* when the lock is enabled, the candidate is present and the candidate
\* differs from the locked id.
C22_AsClaimed ==
    probe.op = "validateProjectId" =>
        (probe.verdict # Null <=>
            /\ LockEnabled
            /\ probe.candidate # Null
            /\ probe.candidate[1] # LockedId)

\* C22, amended: validateProjectId(candidate) returns a violation exactly
\* when the lock is enabled, the candidate is present and not empty, and
\* the candidate differs from the locked id; the violation names the locked
\* id; the call changes neither the platform nor any invocation nor the
\* environment variable, and leaves a configuration already loaded as it is.
C22_ViolationIff ==
    [][(probe' # probe /\ probe'.op = "validateProjectId") =>
          /\ probe'.verdict # Null <=>
                /\ LockEnabled'
                /\ probe'.candidate # Null
                /\ probe'.candidate[1] # ""
                /\ probe'.candidate[1] # LockedId'
          /\ probe'.verdict # Null => LockedId' \in Parts(probe'.verdict[1])
          /\ directory' = directory /\ inv' = inv /\ env' = env
          /\ startup' = startup
          /\ config # Null => config' = config]_vars

\* another project's id offered under the lock has been refused
C22_Witness ==
    /\ LockEnabled
    /\ LockedId = "p1"
    /\ probe.op = "validateProjectId"
    /\ probe.candidate = Some("p2")
    /\ probe.verdict # Null

-----------------------------------------------------------------------------
(* C23 *)

\* C23: getEffectiveProjectId(candidate) returns the locked id for every
\* candidate -- absent, empty, equal or different -- when the lock is
\* enabled, and the candidate itself, absent if it was absent, when the
\* lock is disabled.
C23_LockWins ==
    probe.op = "getEffectiveProjectId" =>
        /\ LockEnabled => probe.effective = Some(LockedId)
        /\ LockDisabled => probe.effective = probe.candidate

\* another project's id offered under the lock has been replaced by the
\* locked id
C23_Witness ==
    /\ LockEnabled
    /\ LockedId = "p1"
    /\ probe.op = "getEffectiveProjectId"
    /\ probe.candidate = Some("p2")
    /\ probe.effective = Some("p1")

-----------------------------------------------------------------------------
(* C24 *)

\* the lookup ended in an exception: the client call rejected, or reading
\* the answer threw
EndedInException(resp) ==
    \/ resp.kind \in {"throw", "throwOther"}
    \/ resp = RespNullEntry

-----------------------------------------------------------------------------
(* C25 *)

ScopingKeys == {"projectId", "environmentId", "targetEnvironmentId"}

\* the part of a bag the gate is concerned with
Scoped(b) == [k \in DOMAIN b \cap ScopingKeys |-> b[k]]

\* C25: at every point of a call and whatever its outcome, the bag holds
\* the keys the caller sent, plus projectId at most, and every key other
\* than projectId has the value the caller sent; lookups are made for the
\* bag's environmentId and targetEnvironmentId only; and two invocations
\* whose bags agree on projectId, environmentId and targetEnvironmentId and
\* that received equal directory responses are decided alike and get the
\* same projectId, whatever their other keys hold -- another project's id
\* under sourceProjectId included.
C25_OnlyScopingKeys ==
    /\ \A i \in Invs :
          Started(i) =>
              /\ DOMAIN inv[i].params \ {"projectId"} =
                    DOMAIN inv[i].supplied \ {"projectId"}
              /\ "projectId" \in DOMAIN inv[i].supplied =>
                    "projectId" \in DOMAIN inv[i].params
              /\ \A k \in DOMAIN inv[i].supplied \ {"projectId"} :
                    inv[i].params[k] = inv[i].supplied[k]
              /\ \A n \in DOMAIN inv[i].lookups :
                    \E k \in ChildKeys :
                        /\ k \in DOMAIN inv[i].supplied
                        /\ inv[i].lookups[n].childId = inv[i].supplied[k]
    /\ \A i, j \in Invs :
          (/\ Started(i) /\ Started(j)
           /\ Scoped(inv[i].supplied) = Scoped(inv[j].supplied)
           /\ Answers(i) = Answers(j)) =>
              /\ inv[i].gate = inv[j].gate
              /\ inv[i].lockError = inv[j].lockError
              /\ Scoped(inv[i].params) = Scoped(inv[j].params)

\* under the lock on p1, a bag naming project p2 as sourceProjectId has
\* been let through with that key untouched and projectId injected, next to
\* an invocation with another bag free of scoping keys
C25_Witness ==
    \E i, j \in Invs :
        /\ i # j
        /\ LockEnabled /\ LockedId = "p1"
        /\ inv[i].supplied = [sourceProjectId |-> "p2"]
        /\ inv[i].gate = "proceed"
        /\ inv[i].params = [sourceProjectId |-> "p2", projectId |-> "p1"]
        /\ inv[j].supplied = [applicationId |-> "a1"]
        /\ inv[j].gate = "proceed"

-----------------------------------------------------------------------------
(* C26 *)

\* C26: with the lock enabled, a call whose bag came without a projectId
\* and that is denied is denied for its environmentId or its
\* targetEnvironmentId, and the bag it leaves behind is the caller's bag
\* with projectId set to the locked id: the injection made before the
\* lookups is not taken back.
C26_InjectionNotRolledBack ==
    \A i \in Invs :
        (/\ LockEnabled
         /\ "projectId" \notin DOMAIN inv[i].supplied
         /\ inv[i].gate = "denied") =>
            /\ inv[i].lockError[1].title \in
                  {<<"Environment validation failed">>,
                   <<"Target environment validation failed">>}
            /\ "projectId" \in DOMAIN inv[i].params
            /\ inv[i].params["projectId"] = LockedId
            /\ inv[i].params # inv[i].supplied
            /\ inv[i].pc = "done" =>
                  (inv[i].result = inv[i].lockError /\ inv[i].calls = <<>>)

\* a bag with a foreign environmentId and no projectId has been denied and
\* answered, and carries the locked id
C26_Witness ==
    \E i \in Invs :
        /\ LockEnabled
        /\ inv[i].pc = "done"
        /\ inv[i].gate = "denied"
        /\ inv[i].supplied = [environmentId |-> "e3"]
        /\ inv[i].lookups[1].response = RespEnvs
        /\ inv[i].params = [environmentId |-> "e3", projectId |-> LockedId]

-----------------------------------------------------------------------------
(* C27 *)

\* C27: with the lock enabled, a scoping key sent with the empty string is
\* handled as if it had not been sent: an empty projectId is never a
\* "Project lock violation" and is overwritten with the locked id; for an
\* empty environmentId or targetEnvironmentId no lookup is made, the value
\* stays in the bag and is what the handler receives.
C27_FalsyIsAbsent ==
    \A i \in Invs :
        (LockEnabled /\ Started(i)) =>
            /\ ("projectId" \in DOMAIN inv[i].supplied
                /\ inv[i].supplied["projectId"] = "") =>
                  /\ inv[i].params["projectId"] = LockedId
                  /\ inv[i].gate = "denied" =>
                        inv[i].lockError[1].title # <<"Project lock violation">>
            /\ \A k \in ChildKeys :
                  (k \in DOMAIN inv[i].supplied /\ inv[i].supplied[k] = "") =>
                      /\ \A n \in DOMAIN inv[i].lookups :
                            inv[i].lookups[n].childId # ""
                      /\ inv[i].params[k] = ""
                      /\ \A n \in DOMAIN inv[i].calls :
                            inv[i].calls[n].arg[k] = ""
                      /\ (\A x \in ChildKeys : ~Truthy(inv[i].supplied, x)) =>
                            (inv[i].lookups = <<>> /\ inv[i].pc # "await_env"
                             /\ inv[i].pc # "await_target")

\* a bag with all three scoping keys empty has reached its handler under
\* the lock without any lookup
C27_Witness ==
    \E i \in Invs :
        /\ LockEnabled
        /\ inv[i].pc = "await_handler"
        /\ inv[i].supplied = [projectId |-> "", environmentId |-> "",
                              targetEnvironmentId |-> ""]
        /\ inv[i].lookups = <<>>
        /\ inv[i].calls[1].arg = [projectId |-> LockedId, environmentId |-> "",
                                  targetEnvironmentId |-> ""]

-----------------------------------------------------------------------------
(* C28 *)

\* C28: in each consolidated tool the names the schema's action enum
\* accepts are exactly the keys of the handler's action map; hence for
\* every input the schema accepts, once the gate has let the call through
\* the router resolves exactly one handler, the one the map gives for the
\* action, and never answers "Invalid action".
C28_EnumIsMap ==
    /\ \A i \in Invs :
          Started(i) =>
              /\ inv[i].action \in actionEnum(inv[i].family)
              /\ inv[i].consulted =>
                    /\ Len(inv[i].calls) = 1
                    /\ inv[i].calls[1].tool =
                          actionMap(inv[i].family)[inv[i].action]
              /\ (inv[i].pc = "done" /\ inv[i].gate = "proceed") =>
                    /\ inv[i].consulted
                    /\ inv[i].result # Null
                    /\ inv[i].result[1].title # <<"Invalid action">>
    /\ \A f \in Families : actionEnum(f) = DOMAIN actionMap(f)

\* the last name of the longest enum has been routed to its handler
C28_Witness ==
    \E i \in Invs :
        /\ inv[i].family = "application"
        /\ inv[i].action = "domainValidate"
        /\ inv[i].pc = "await_handler"
        /\ inv[i].calls = <<[tool |-> applicationActionMap["domainValidate"],
                            arg |-> inv[i].params]>>

====
